---- MODULE Spec2Model ----
(***************************************************************************)
(* figmasset (src/index.js): the Figma API client, the document search,   *)
(* the asset list builder, the per-scale image resolver, the orchestrator *)
(* getFigmassets, the map integration and the stored-snapshot loader.     *)
(*                                                                         *)
(* A document tree is held as the pre-order list of its nodes, each with  *)
(* its depth; node.children is computed from the depths.  A node is then  *)
(* named by its position in that list, and position 0 stands for a        *)
(* null/undefined node.                                                    *)
(***************************************************************************)
EXTENDS Integers, Sequences, FiniteSets, TLC

VARIABLES pc, file, frameIds, frameNames, frames, assetList, scales,
          calls, fetchLog, result, assets, loads, images, path

vars == <<pc, file, frameIds, frameNames, frames, assetList, scales,
          calls, fetchLog, result, assets, loads, images, path>>

----------------------------------------------------------------------------
(* Bounds of the model *)

MaxNodes == 3        \* nodes below the document root
MaxNames == 2        \* length of a list of frame names
MaxFrames == 2       \* length of a list of frames / frame ids
MaxScales == 2       \* length of the list of requested scales
MaxDocNodes == 2     \* nodes below the root of a document getFigmassets fetches
MaxPath == 3         \* length of a base path, in characters
MaxAssets == 2       \* descriptors of a stored manifest

----------------------------------------------------------------------------
(* JavaScript values *)

Null == "null"
Undefined == "undefined"

\* the identifiers Boolean(x) is false of (null, undefined, '')
FalsyIds == {Null, Undefined, ""}

\* the nodes Boolean(x) is false of (position 0: null or undefined)
FalsyNodes == {0}

\* Array.prototype.find(Boolean): the first truthy element, else `none`
FindBoolean(s, falsy, none) ==
    IF \E i \in 1..Len(s) : s[i] \notin falsy
    THEN s[CHOOSE i \in 1..Len(s) :
               s[i] \notin falsy /\ \A j \in 1..(i - 1) : s[j] \in falsy]
    ELSE none

\* Array.prototype.filter(Boolean)
FilterBoolean(s, falsy) == SelectSeq(s, LAMBDA x : x \notin falsy)

SeqsUpTo(S, n) == UNION {[1..k -> S] : k \in 0..n}

----------------------------------------------------------------------------
(* Document trees *)

Names == {"a", "b"}
Types == {"FRAME", "GROUP", "VECTOR"}

IdOf(i) == <<"0:0", "1:1", "1:2", "1:3", "1:4", "1:5", "1:6">>[i]

Root == [id |-> IdOf(1), name |-> "Document", type |-> "DOCUMENT",
         depth |-> 0, hasChildren |-> TRUE]

\* depths of the nodes below the root, in pre-order
DepthSeqs(n) ==
    {d \in [1..n -> 1..n] :
        /\ n > 0 => d[1] = 1
        /\ \A i \in 1..(n - 1) : d[i + 1] <= d[i] + 1}

\* a VECTOR node carries no children field; FRAME and GROUP nodes carry a
\* (possibly empty) children array
TreesOfSize(n, types) ==
    {[i \in 1..(n + 1) |->
        IF i = 1 THEN Root
        ELSE [id |-> IdOf(i), name |-> l[i - 1][1], type |-> l[i - 1][2],
              depth |-> d[i - 1], hasChildren |-> l[i - 1][2] # "VECTOR"]] :
        <<d, l>> \in {x \in DepthSeqs(n) \X [1..n -> Names \X types] :
            \A i \in 1..(n - 1) :
                x[2][i][2] = "VECTOR" => x[1][i + 1] <= x[1][i]}}

Files(n, types) ==
    {[document |-> t] : t \in UNION {TreesOfSize(k, types) : k \in 0..n}}

\* node.children of the node at position i: the positions of the nodes one
\* level deeper that follow it before the next node at its level or above
Children(doc, i) ==
    LET last == IF \E k \in (i + 1)..Len(doc) : doc[k].depth <= doc[i].depth
                THEN (CHOOSE k \in (i + 1)..Len(doc) :
                        /\ doc[k].depth <= doc[i].depth
                        /\ \A m \in (i + 1)..(k - 1) :
                              doc[m].depth > doc[i].depth) - 1
                ELSE Len(doc)
        kids == {k \in (i + 1)..last : doc[k].depth = doc[i].depth + 1}
    IN  [j \in 1..Cardinality(kids) |->
            CHOOSE k \in kids : Cardinality({m \in kids : m < k}) = j - 1]

----------------------------------------------------------------------------
(* Document Search *)

RECURSIVE findNode(_, _, _)
findNode(doc, nodeId, searchNode) ==
    IF nodeId = doc[searchNode].id THEN searchNode
    ELSE IF doc[searchNode].hasChildren
    THEN LET kids == Children(doc, searchNode)
         IN  FindBoolean([j \in 1..Len(kids) |-> findNode(doc, nodeId, kids[j])],
                         FalsyNodes, 0)
    ELSE 0

findNodesById(f, nodeIds) ==
    [k \in 1..Len(nodeIds) |-> findNode(f.document, nodeIds[k], 1)]

\* findNameInNode without the test of the type
RECURSIVE findNameInNode_AnyType(_, _, _)
findNameInNode_AnyType(doc, name, node) ==
    IF name = doc[node].name THEN doc[node].id
    ELSE IF doc[node].hasChildren
    THEN LET kids == Children(doc, node)
         IN  FindBoolean([j \in 1..Len(kids) |->
                             findNameInNode_AnyType(doc, name, kids[j])],
                         FalsyIds, Undefined)
    ELSE Null

RECURSIVE findNameInNode(_, _, _)
findNameInNode(doc, name, node) ==
    IF name = doc[node].name /\ doc[node].type = "FRAME" THEN doc[node].id
    ELSE IF doc[node].hasChildren
    THEN LET kids == Children(doc, node)
         IN  FindBoolean([j \in 1..Len(kids) |-> findNameInNode(doc, name, kids[j])],
                         FalsyIds, Undefined)
    ELSE Null

findNodeIdsForNames(f, names) ==
    [k \in 1..Len(names) |-> findNameInNode(f.document, names[k], 1)]

----------------------------------------------------------------------------
(* Values of the variables an operation does not use *)

NoResult == [kind |-> "none"]

Idle(used) ==
    /\ "file" \in used \/ file = [document |-> <<Root>>]
    /\ "frameIds" \in used \/ frameIds = <<>>
    /\ "frameNames" \in used \/ frameNames = <<>>
    /\ "frames" \in used \/ frames = <<>>
    /\ "assetList" \in used \/ assetList = <<>>
    /\ "scales" \in used \/ scales = <<>>
    /\ "calls" \in used \/ calls = <<>>
    /\ "fetchLog" \in used \/ fetchLog = <<>>
    /\ "result" \in used \/ result = NoResult
    /\ "assets" \in used \/ assets = <<>>
    /\ "loads" \in used \/ loads = <<>>
    /\ "images" \in used \/ images = <<>>
    /\ "path" \in used \/ path = <<>>

----------------------------------------------------------------------------
(* findNodeIdsForNames applied to every bounded document and name list *)

InitSearch ==
    /\ pc = "start"
    /\ file \in Files(MaxNodes, Types)
    /\ frameNames \in SeqsUpTo(Names, MaxNames)
    /\ Idle({"file", "frameNames"})

Search ==
    /\ pc = "start"
    /\ result' = [kind |-> "ok", value |-> findNodeIdsForNames(file, frameNames)]
    /\ pc' = "done"
    /\ UNCHANGED <<file, frameIds, frameNames, frames, assetList, scales,
                   calls, fetchLog, assets, loads, images, path>>

NextSearch == Search

SpecSearch == InitSearch /\ [][NextSearch]_vars

\* positions of the nodes named `name` of type FRAME, in document order
FrameMatches(doc, name) ==
    {i \in 1..Len(doc) : doc[i].name = name /\ doc[i].type = "FRAME"}

Min(S) == CHOOSE x \in S : \A y \in S : x <= y

\* C8: findNodeIdsForNames yields, per name, the id of the first node in
\* depth-first pre-order whose name is the target and whose type is FRAME
\* (a same-named node of another type is passed over), and an absent value
\* (null or undefined) when the document holds no such node.
C8_FirstFrameInPreOrder ==
    pc = "done" =>
        /\ Len(result.value) = Len(frameNames)
        /\ \A k \in 1..Len(frameNames) :
            LET m == FrameMatches(file.document, frameNames[k])
            IN  IF m = {} THEN result.value[k] \in {Null, Undefined}
                ELSE result.value[k] = file.document[Min(m)].id

\* a GROUP named like the target precedes the FRAME that is returned
C8_Witness ==
    /\ pc = "done"
    /\ \E k \in 1..Len(frameNames) :
        LET doc == file.document
            m == FrameMatches(doc, frameNames[k])
        IN  /\ m # {}
            /\ result.value[k] = doc[Min(m)].id
            /\ \E i \in 2..(Min(m) - 1) :
                  /\ doc[i].name = frameNames[k]
                  /\ doc[i].type = "GROUP"
                  /\ Min(m) \in {c \in 1..Len(doc) :
                        \E j \in 1..Len(Children(doc, i)) : Children(doc, i)[j] = c}

----------------------------------------------------------------------------
(* JavaScript objects with string keys: the entries in insertion order.    *)
(* Assigning to a key the object holds keeps the key's place.              *)

HasKey(obj, key) == \E i \in 1..Len(obj) : obj[i].key = key

ObjGet(obj, key) ==
    IF HasKey(obj, key)
    THEN obj[CHOOSE i \in 1..Len(obj) : obj[i].key = key].val
    ELSE Undefined

ObjSet(obj, key, val) ==
    IF HasKey(obj, key)
    THEN [i \in 1..Len(obj) |->
            IF obj[i].key = key THEN [key |-> key, val |-> val] ELSE obj[i]]
    ELSE Append(obj, [key |-> key, val |-> val])

ObjKeys(obj) == [i \in 1..Len(obj) |-> obj[i].key]
ObjValues(obj) == [i \in 1..Len(obj) |-> obj[i].val]

Ok(v) == [kind |-> "ok", value |-> v]
Throw(e) == [kind |-> "throw", error |-> e]

\* an Error: its kind, the HTTP status it reports (0 for none) and the rest
\* of its message
Error(type, status, extra) == [type |-> type, status |-> status, extra |-> extra]

----------------------------------------------------------------------------
(* Asset List Builder *)

\* AddChildren keeping the first id seen for a name
RECURSIVE AddChildren_FirstWins(_, _, _)
AddChildren_FirstWins(doc, list, kids) ==
    IF kids = <<>> THEN list
    ELSE AddChildren_FirstWins(doc,
            IF HasKey(list, doc[Head(kids)].name) THEN list
            ELSE ObjSet(list, doc[Head(kids)].name, doc[Head(kids)].id),
            Tail(kids))

\* for (const node of frame.children) assetList[node.name] = node.id
RECURSIVE AddChildren(_, _, _)
AddChildren(doc, list, kids) ==
    IF kids = <<>> THEN list
    ELSE AddChildren(doc,
                     ObjSet(list, doc[Head(kids)].name, doc[Head(kids)].id),
                     Tail(kids))

RECURSIVE AddFrames(_, _, _)
AddFrames(doc, list, fs) ==
    IF fs = <<>> THEN list
    ELSE AddFrames(doc, AddChildren(doc, list, Children(doc, Head(fs))), Tail(fs))

\* iterating the children of a frame that has no children field throws
makeAssetList(f, fs) ==
    LET doc == f.document
        kept == FilterBoolean(fs, FalsyNodes)
    IN  IF \E k \in 1..Len(kept) : ~doc[kept[k]].hasChildren
        THEN Throw(Error("TypeError", 0, ""))
        ELSE Ok(AddFrames(doc, <<>>, kept))

----------------------------------------------------------------------------
(* makeAssetList applied to every bounded document and list of its nodes   *)
(* (0 for a null entry)                                                    *)

InitAssetList ==
    /\ pc = "start"
    /\ file \in Files(MaxNodes, {"FRAME", "VECTOR"})
    /\ frames \in SeqsUpTo(0..Len(file.document), MaxFrames)
    /\ Idle({"file", "frames"})

MakeAssetList ==
    /\ pc = "start"
    /\ result' = makeAssetList(file, frames)
    /\ pc' = "done"
    /\ UNCHANGED <<file, frameIds, frameNames, frames, assetList, scales,
                   calls, fetchLog, assets, loads, images, path>>

NextAssetList == MakeAssetList

SpecAssetList == InitAssetList /\ [][NextAssetList]_vars

\* the parent of the node at position i: the nearest earlier node one level up
Parent(doc, i) ==
    IF i = 1 THEN 0
    ELSE CHOOSE k \in 1..(i - 1) :
            /\ doc[k].depth = doc[i].depth - 1
            /\ \A m \in (k + 1)..(i - 1) : doc[m].depth >= doc[i].depth

\* the pairs <<k, c>>: c is an immediate child of the k-th frame given
ChildSlots(doc, fs) ==
    {<<k, c>> \in (1..Len(fs)) \X (1..Len(doc)) :
        fs[k] # 0 /\ Parent(doc, c) = fs[k]}

\* <<k, c>> is processed after <<k2, c2>>: a later frame, or a later child
\* of the same frame
After(s, t) == s[1] > t[1] \/ (s[1] = t[1] /\ s[2] > t[2])

\* C9: the Asset List makeAssetList returns holds exactly the names of the
\* immediate children of the frames given (no grandchild adds a name), each
\* name once, mapped to the id of the last child of that name in processing
\* order (frames in input order, children in order within a frame).
C9_LastChildWins ==
    (pc = "done" /\ result.kind = "ok") =>
        LET doc == file.document
            slots == ChildSlots(doc, frames)
            list == result.value
        IN  /\ {list[i].key : i \in 1..Len(list)} = {doc[s[2]].name : s \in slots}
            /\ \A i, j \in 1..Len(list) : list[i].key = list[j].key => i = j
            /\ \A i \in 1..Len(list) :
                \E s \in slots :
                    /\ doc[s[2]].name = list[i].key
                    /\ doc[s[2]].id = list[i].val
                    /\ \A t \in slots :
                          doc[t[2]].name = list[i].key => ~After(t, s)

\* two frames hold a child of the same name with different ids, the later
\* frame's id is the one mapped, and a grandchild of a frame is left out
C9_Witness ==
    /\ pc = "done"
    /\ result.kind = "ok"
    /\ LET doc == file.document
           slots == ChildSlots(doc, frames)
       IN  /\ \E s, t \in slots :
                /\ s[1] < t[1]
                /\ frames[s[1]] # frames[t[1]]
                /\ doc[s[2]].name = doc[t[2]].name
                /\ doc[s[2]].id # doc[t[2]].id
                /\ ObjGet(result.value, doc[t[2]].name) = doc[t[2]].id
           /\ \E g \in 1..Len(doc) :
                /\ \E k \in 1..Len(frames) :
                      frames[k] # 0 /\ Parent(doc, g) # 0
                      /\ Parent(doc, Parent(doc, g)) = frames[k]
                /\ ~HasKey(result.value, doc[g].name)

----------------------------------------------------------------------------
(* API Client: figmaApi.prototype.get.  An invocation is a record of     *)
(* `calls`: it waits for the fetch ("fetch"), then for response.json()    *)
(* inside the try block ("errjson") or as its return value ("json").      *)

ErrorStatus == 400

NoBody == [parses |-> FALSE, err |-> Undefined, data |-> <<>>]
NoResponse == [status |-> 0, body |-> NoBody]

\* the request handed to fetchFunc
Request(api, params) == [url |-> <<"https://api.figma.com/v1/", api>>, search |-> params]

NewCall(api, params) ==
    [api |-> api, params |-> params, pc |-> "fetch",
     response |-> NoResponse, outcome |-> [kind |-> "none"], order |-> 0]

\* if (response.status >= 400) { try { await response.json() } ... }
\* else return response.json()
Responded(call, status, body) ==
    [call EXCEPT !.response = [status |-> status, body |-> body],
                 !.pc = IF status >= ErrorStatus THEN "errjson" ELSE "json"]

\* a try without the finally: a failure of response.json() escapes
ErrJsonOutcome_NoFinally(call) ==
    LET body == call.response.body
    IN  IF body.parses
        THEN Throw(Error("HTTP error", call.response.status, body.err))
        ELSE Throw(Error("SyntaxError", 0, ""))

\* extra += (await response.json()).err, and the throw of the finally block,
\* which replaces a failure of response.json()
ErrJsonOutcome(call) ==
    LET body == call.response.body
        extra == IF body.parses THEN body.err ELSE ""
    IN  Throw(Error("HTTP error", call.response.status, extra))

\* return response.json()
JsonOutcome(call) ==
    LET body == call.response.body
    IN  IF body.parses THEN Ok(body.data) ELSE Throw(Error("SyntaxError", 0, ""))

\* `order` records the position of the invocation among those that settled
Settled(call, outcome, order) ==
    [call EXCEPT !.pc = "done", !.outcome = outcome, !.order = order]

----------------------------------------------------------------------------
(* Image Resolver: getAssetImages *)

\* decimal digits of a natural number, as String(scale) writes them
Digit(n) == <<"0", "1", "2", "3", "4", "5", "6", "7", "8", "9">>[n + 1]

RECURSIVE ToDigits(_)
ToDigits(n) == IF n < 10 THEN <<Digit(n)>> ELSE ToDigits(n \div 10) \o <<Digit(n % 10)>>

\* `@${scale}x`
ScaleKey(scale) == <<"@">> \o ToDigits(scale) \o <<"x">>

IdKey == <<"i", "d">>

NoUrl == <<>>

\* the first URL of the response, whatever the id asked for
UrlOf_First(imageList, nodeId) ==
    IF Len(imageList.images) > 0 THEN imageList.images[1].val ELSE NoUrl

\* imageList.images[nodeId]: the URL, or nothing when the response lacks it
UrlOf(imageList, nodeId) ==
    IF HasKey(imageList.images, nodeId) THEN ObjGet(imageList.images, nodeId) ELSE NoUrl

\* the body of api.get(`images/${fileKey}`, {ids, format, scale})
ImageParams(list, scale) == [ids |-> ObjValues(list), format |-> "png", scale |-> scale]

\* scales.map((scale) => getImageList(scale)): every request is handed to
\* fetchFunc before the first await of getAssetImages
DispatchCalls(list, scs) ==
    [i \in 1..Len(scs) |-> NewCall("images", ImageParams(list, scs[i]))]

DispatchRequests(list, scs) ==
    [i \in 1..Len(scs) |-> Request("images", ImageParams(list, scs[i]))]

\* the inner loop: one scale over every name of the asset list
RECURSIVE MergeNames(_, _, _, _, _)
MergeNames(acc, list, names, scale, imageList) ==
    IF names = <<>> THEN acc
    ELSE LET name == Head(names)
             nodeId == ObjGet(list, name)
             entry == IF HasKey(acc, name) THEN ObjGet(acc, name)
                      ELSE <<[key |-> IdKey, val |-> nodeId]>>
             entry2 == ObjSet(entry, ScaleKey(scale), UrlOf(imageList, nodeId))
         IN  MergeNames(ObjSet(acc, name, entry2), list, Tail(names), scale, imageList)

\* scales.forEach((scale, scaleIndex) => ...)
RECURSIVE MergeScales(_, _, _, _, _)
MergeScales(acc, list, scs, imageLists, scaleIndex) ==
    IF scaleIndex > Len(scs) THEN acc
    ELSE MergeScales(MergeNames(acc, list, ObjKeys(list), scs[scaleIndex],
                                imageLists[scaleIndex]),
                     list, scs, imageLists, scaleIndex + 1)

Merge(list, scs, imageLists) == MergeScales(<<>>, list, scs, imageLists, 1)

\* the calls made for the image requests, in the order of `scales`
ImageCalls(cs) == SelectSeq(cs, LAMBDA c : c.api = "images")

\* the responses taken in the order they completed in
AwaitAll_ByCompletion(settled, cs) ==
    LET ics == ImageCalls(cs)
        Rank(i) == Cardinality({j \in 1..Len(ics) : ics[j].order < ics[i].order}) + 1
    IN  IF settled.outcome.kind = "throw" THEN settled.outcome
        ELSE IF \A i \in 1..Len(ics) : ics[i].outcome.kind = "ok"
        THEN Ok(Merge(assetList, scales,
                      [k \in 1..Len(ics) |->
                          ics[CHOOSE i \in 1..Len(ics) : Rank(i) = k].outcome.value]))
        ELSE [kind |-> "none"]

\* every request waited for, and the scales that succeeded merged
AwaitAll_Settled(settled, cs) ==
    LET ics == ImageCalls(cs)
    IN  IF \A i \in 1..Len(ics) : ics[i].pc = "done"
        THEN Ok(Merge(assetList, scales,
                      [i \in 1..Len(ics) |->
                          IF ics[i].outcome.kind = "ok" THEN ics[i].outcome.value
                          ELSE [images |-> <<>>]]))
        ELSE [kind |-> "none"]

\* await Promise.all(...): rejected by the first request that fails,
\* fulfilled by the merge once every request has succeeded
AwaitAll(settled, cs) ==
    LET ics == ImageCalls(cs)
    IN  IF settled.outcome.kind = "throw" THEN settled.outcome
        ELSE IF \A i \in 1..Len(ics) : ics[i].outcome.kind = "ok"
        THEN Ok(Merge(assetList, scales, [i \in 1..Len(ics) |-> ics[i].outcome.value]))
        ELSE [kind |-> "none"]

----------------------------------------------------------------------------
(* Orchestrator: getFigmassets, from the point where the file arrives *)

\* frameIds = [...frameIds, ...findNodeIdsForNames({file, names: frameNames})]
ResolveIds(f, ids, names) ==
    IF Len(names) > 0 THEN ids \o findNodeIdsForNames(f, names) ELSE ids

\* `${array}`: the elements joined by commas, null and undefined as ''
RECURSIVE Join(_)
Join(s) ==
    IF s = <<>> THEN <<>>
    ELSE LET h == IF Head(s) \in {Null, Undefined} THEN "" ELSE Head(s)
         IN  IF Len(s) = 1 THEN <<h>> ELSE <<h, ",">> \o Join(Tail(s))

\* getFigmassets without the test for an empty list of frames
NoFrames_Never(fr) == FALSE

\* if (!frames.length)
NoFrames(fr) == Len(fr) = 0

\* new Error(`No matching frames for ${frameIds}, ${frameNames}`)
NoMatchError(ids, names) ==
    Error("No matching frames", 0,
          <<"No matching frames for ">> \o Join(ids) \o <<", ">> \o Join(names))

\* what await Promise.all of no promise at all, and the merge over no
\* scale, give: the empty record
NoScales(scs) == Len(scs) = 0

\* the rest of getFigmassets once api.get(`files/${fileKey}`) has settled
AfterFile(outcome, cs) ==
    IF outcome.kind = "throw"
    THEN /\ result' = outcome
         /\ pc' = "done"
         /\ calls' = cs
         /\ UNCHANGED <<file, frameIds, frames, assetList, fetchLog>>
    ELSE LET f == outcome.value
             ids == ResolveIds(f, frameIds, frameNames)
             fr == FilterBoolean(findNodesById(f, ids), FalsyNodes)
             list == makeAssetList(f, fr)
         IN  /\ file' = f
             /\ frameIds' = ids
             /\ frames' = fr
             /\ IF NoFrames(fr)
                THEN /\ result' = Throw(NoMatchError(ids, frameNames))
                     /\ pc' = "done"
                     /\ calls' = cs
                     /\ UNCHANGED <<assetList, fetchLog>>
                ELSE IF list.kind = "throw"
                THEN /\ result' = list
                     /\ pc' = "done"
                     /\ calls' = cs
                     /\ UNCHANGED <<assetList, fetchLog>>
                ELSE /\ assetList' = list.value
                     /\ calls' = cs \o DispatchCalls(list.value, scales)
                     /\ fetchLog' = fetchLog \o DispatchRequests(list.value, scales)
                     /\ IF NoScales(scales)
                        THEN result' = Ok(<<>>) /\ pc' = "done"
                        ELSE pc' = "images_await" /\ UNCHANGED result

----------------------------------------------------------------------------
(* The steps of an api.get invocation, each followed by what the awaiting *)
(* function does when the invocation settles                               *)

SettleOrder == Cardinality({c \in 1..Len(calls) : calls[c].pc = "done"}) + 1

\* the function awaiting call c runs on, with cs the calls after c settled
Resume(c, cs) ==
    CASE pc = "get_await" ->
            /\ calls' = cs
            /\ result' = cs[c].outcome
            /\ pc' = "done"
            /\ UNCHANGED <<file, frameIds, frames, assetList, fetchLog>>
      [] pc = "file_await" -> AfterFile(cs[c].outcome, cs)
      [] pc = "images_await" ->
            LET r == AwaitAll(cs[c], cs)
            IN  /\ calls' = cs
                /\ IF r.kind = "none" THEN UNCHANGED <<pc, result>>
                   ELSE pc' = "done" /\ result' = r
                /\ UNCHANGED <<file, frameIds, frames, assetList, fetchLog>>
      [] OTHER ->
            /\ calls' = cs
            /\ UNCHANGED <<pc, result, file, frameIds, frames, assetList, fetchLog>>

\* figmaApi.get up to its first await: the request goes to fetchFunc
GetStart ==
    /\ pc = "get_start"
    /\ calls' = [calls EXCEPT ![1].pc = "fetch"]
    /\ fetchLog' = Append(fetchLog, Request(calls[1].api, calls[1].params))
    /\ pc' = "get_await"
    /\ UNCHANGED <<file, frameIds, frameNames, frames, assetList, scales,
                   result, assets, loads, images, path>>

\* fetchFunc resolves with a response
FetchRespond(c, status, body) ==
    /\ calls[c].pc = "fetch"
    /\ calls' = [calls EXCEPT ![c] = Responded(calls[c], status, body)]
    /\ UNCHANGED <<pc, file, frameIds, frameNames, frames, assetList, scales,
                   fetchLog, result, assets, loads, images, path>>

\* fetchFunc rejects
FetchReject(c) ==
    /\ calls[c].pc = "fetch"
    /\ Resume(c, [calls EXCEPT ![c] = Settled(calls[c], Throw(Error("FetchError", 0, "")), SettleOrder)])
    /\ UNCHANGED <<frameNames, scales, assets, loads, images, path>>

\* response.json() of the try block settles, and the finally block throws
ErrJsonSettle(c) ==
    /\ calls[c].pc = "errjson"
    /\ Resume(c, [calls EXCEPT ![c] = Settled(calls[c], ErrJsonOutcome(calls[c]), SettleOrder)])
    /\ UNCHANGED <<frameNames, scales, assets, loads, images, path>>

\* the response.json() that get returns settles
JsonSettle(c) ==
    /\ calls[c].pc = "json"
    /\ Resume(c, [calls EXCEPT ![c] = Settled(calls[c], JsonOutcome(calls[c]), SettleOrder)])
    /\ UNCHANGED <<frameNames, scales, assets, loads, images, path>>

----------------------------------------------------------------------------
(* What the remote service may answer *)

Unparsable == NoBody
ErrBody(err) == [parses |-> TRUE, err |-> err, data |-> <<>>]
DataBody(data) == [parses |-> TRUE, err |-> Undefined, data |-> data]

\* an images response for the ids asked, with URLs for the ids of `present`
ImageList(call, present) ==
    LET ids == SelectSeq(call.params.ids, LAMBDA x : x \in present)
    IN  [images |-> [i \in 1..Len(ids) |->
            [key |-> ids[i], val |-> <<"url", call.params.scale, ids[i]>>]]]

ImageLists(call) ==
    {ImageList(call, present) :
        present \in SUBSET {call.params.ids[i] : i \in 1..Len(call.params.ids)}}

Payloads(call, files) ==
    IF call.api = "files" THEN files ELSE ImageLists(call)

\* every kind of answer: success and failure statuses on both sides of the
\* threshold, bodies that parse and bodies that do not
AllResponses(call, files) ==
    ({200, 399} \X ({DataBody(d) : d \in Payloads(call, files)} \cup {Unparsable}))
    \cup ({400, 404, 500} \X {Unparsable, ErrBody("Not found"), ErrBody(Undefined)})

\* for the image requests: a success with any subset of the ids rendered,
\* or a failure
ImageResponses(call) ==
    ({200} \X {DataBody(d) : d \in ImageLists(call)})
    \cup ({404} \X {Unparsable, ErrBody("Not found")})

----------------------------------------------------------------------------
(* Inputs *)

ScaleValues == {1, 2}

AssetPool == [i \in 1..4 |-> [key |-> <<"a", "b", "c", "d">>[i], val |-> IdOf(i + 1)]]

AssetLists(n) == {SubSeq(AssetPool, 1, k) : k \in 0..n}

----------------------------------------------------------------------------
(* figmaApi.get on its own *)

InitGet ==
    /\ pc = "get_start"
    /\ \E api \in {"files", "images"} :
       \E list \in AssetLists(MaxAssets) \ {<<>>} :
       \E scale \in ScaleValues :
          calls = <<[NewCall(api, IF api = "files" THEN <<>> ELSE ImageParams(list, scale))
                        EXCEPT !.pc = "start"]>>
    /\ Idle({"calls"})

NextGet ==
    \/ GetStart
    \/ /\ calls[1].pc = "fetch"
       /\ \E r \in AllResponses(calls[1], Files(1, Types)) : FetchRespond(1, r[1], r[2])
    \/ FetchReject(1)
    \/ ErrJsonSettle(1)
    \/ JsonSettle(1)

SpecGet == InitGet /\ [][NextGet]_vars

----------------------------------------------------------------------------
(* getAssetImages on its own *)

InitImages ==
    /\ pc = "images_start"
    /\ assetList \in AssetLists(MaxAssets)
    /\ scales \in SeqsUpTo(ScaleValues, MaxScales)
    /\ Idle({"assetList", "scales"})

GetAssetImages ==
    /\ pc = "images_start"
    /\ calls' = DispatchCalls(assetList, scales)
    /\ fetchLog' = DispatchRequests(assetList, scales)
    /\ IF NoScales(scales)
       THEN result' = Ok(<<>>) /\ pc' = "done"
       ELSE pc' = "images_await" /\ UNCHANGED result
    /\ UNCHANGED <<file, frameIds, frameNames, frames, assetList, scales,
                   assets, loads, images, path>>

NextImages ==
    \/ GetAssetImages
    \/ \E c \in 1..Len(calls) :
          /\ calls[c].pc = "fetch"
          /\ \E r \in ImageResponses(calls[c]) : FetchRespond(c, r[1], r[2])
    \/ \E c \in 1..Len(calls) : FetchReject(c)
    \/ \E c \in 1..Len(calls) : ErrJsonSettle(c)
    \/ \E c \in 1..Len(calls) : JsonSettle(c)

SpecImages == InitImages /\ [][NextImages]_vars

\* C5: a figmaApi.get whose response has status >= 400 fails with the HTTP
\* error carrying that status, whether response.json() gave the error detail
\* or threw; with a status below 400 it gives what response.json() gives, the
\* parsed body when the body parses; and it hands exactly one request to
\* fetchFunc.
C5_HttpErrorOrParsedBody ==
    /\ Len(fetchLog) = (IF pc = "get_start" THEN 0 ELSE 1)
    /\ pc = "done" =>
        LET r == calls[1].response
        IN  /\ r.status >= 400 =>
                /\ result.kind = "throw"
                /\ result.error.type = "HTTP error"
                /\ result.error.status = r.status
            /\ (r.status \in 1..399 /\ r.body.parses) => result = Ok(r.body.data)
            /\ (r.status \in 1..399 /\ ~r.body.parses) =>
                  result.kind = "throw" /\ result.error.type = "SyntaxError"

\* a 4xx/5xx response whose body does not parse still ends in the HTTP error
C5_Witness ==
    /\ pc = "done"
    /\ calls[1].response.status = 404
    /\ ~calls[1].response.body.parses
    /\ result.kind = "throw"
    /\ result.error.type = "HTTP error"
    /\ Len(fetchLog) = 1

----------------------------------------------------------------------------
(* Properties of getAssetImages *)

\* the key under which scale s is stored, written out
ExpectedKey(s) ==
    CASE s = 1 -> <<"@", "1", "x">>
      [] s = 2 -> <<"@", "2", "x">>
      [] s = 3 -> <<"@", "3", "x">>

\* what the response call c received maps nodeId to
ResponseUrl(c, nodeId) ==
    LET imgs == calls[c].response.body.data.images
    IN  IF \E e \in 1..Len(imgs) : imgs[e].key = nodeId
        THEN imgs[CHOOSE e \in 1..Len(imgs) : imgs[e].key = nodeId].val
        ELSE NoUrl

\* the index of the last request made for the scale of the i-th request
LastFor(i) == CHOOSE j \in 1..Len(scales) :
    /\ scales[j] = scales[i]
    /\ \A k \in (j + 1)..Len(scales) : scales[k] # scales[i]

AllSucceeded ==
    /\ Len(calls) = Len(scales)
    /\ \A c \in 1..Len(calls) : calls[c].outcome.kind = "ok"

\* C2: when every request of a non-empty list of scales has succeeded,
\* getAssetImages returns a record whose keys are the names of the asset
\* list; each entry holds the node id under 'id' and, for each requested
\* scale s, the key '@<s>x' with the URL the response for s gives that id,
\* or no URL when that response lacks the id; and it holds nothing else.
C2_RecordPerAssetAndScale ==
    (pc # "images_start" /\ Len(scales) > 0 /\ AllSucceeded) =>
        /\ pc = "done"
        /\ result.kind = "ok"
        /\ ObjKeys(result.value) = ObjKeys(assetList)
        /\ \A a \in 1..Len(assetList) :
            LET entry == result.value[a].val
                nodeId == assetList[a].val
            IN  /\ {entry[e].key : e \in 1..Len(entry)} =
                      {IdKey} \cup {ExpectedKey(scales[i]) : i \in 1..Len(scales)}
                /\ \A e, g \in 1..Len(entry) : entry[e].key = entry[g].key => e = g
                /\ \A e \in 1..Len(entry) :
                    /\ entry[e].key = IdKey => entry[e].val = nodeId
                    /\ \A i \in 1..Len(scales) :
                          entry[e].key = ExpectedKey(scales[i]) =>
                              entry[e].val = ResponseUrl(LastFor(i), nodeId)

\* two assets at scales 1 and 2, the second response lacking the second id
C2_Witness ==
    /\ pc = "done"
    /\ result.kind = "ok"
    /\ scales = <<1, 2>>
    /\ Len(assetList) = 2
    /\ ResponseUrl(1, assetList[2].val) # NoUrl
    /\ ResponseUrl(2, assetList[1].val) # NoUrl
    /\ ResponseUrl(2, assetList[2].val) = NoUrl
    /\ ObjGet(ObjGet(result.value, assetList[2].key), ExpectedKey(2)) = NoUrl
    /\ ObjGet(ObjGet(result.value, assetList[1].key), ExpectedKey(2)) # NoUrl

\* C3: every per-scale request has been handed to fetchFunc before any of
\* them is awaited, and in whatever order the responses complete the URL
\* stored under '@<s>x' is one the response to a request for scale s gave,
\* never one from the response to a request for another scale.
C3_MergeByScaleNotCompletion ==
    /\ pc # "images_start" =>
        /\ Len(fetchLog) = Len(scales)
        /\ \A i \in 1..Len(scales) :
              fetchLog[i].search.scale = scales[i] /\ calls[i].params.scale = scales[i]
    /\ (pc = "done" /\ result.kind = "ok") =>
        \A a \in 1..Len(result.value) : \A i \in 1..Len(scales) :
            LET url == ObjGet(result.value[a].val, ExpectedKey(scales[i]))
            IN  url # NoUrl =>
                  /\ url[2] = scales[i]
                  /\ \E j \in 1..Len(scales) :
                        /\ scales[j] = scales[i]
                        /\ url = ResponseUrl(j, assetList[a].val)

\* the request for the second scale completed before the request for the
\* first, and each scale's entry holds its own response's URL
C3_Witness ==
    /\ pc = "done"
    /\ result.kind = "ok"
    /\ Len(scales) = 2
    /\ scales[1] # scales[2]
    /\ calls[2].order < calls[1].order
    /\ Len(assetList) > 0
    /\ \A i \in 1..2 :
          ObjGet(result.value[1].val, ExpectedKey(scales[i])) =
              <<"url", scales[i], assetList[1].val>>

\* C4: once one of the per-scale requests has failed, getAssetImages has
\* failed: its result is that failure and never an Image Record, whichever
\* request failed and whatever the other requests did before or after.
C4_AnyFailureFailsAll ==
    (\E c \in 1..Len(calls) : calls[c].outcome.kind = "throw") =>
        /\ pc = "done"
        /\ result.kind = "throw"
        /\ \E c \in 1..Len(calls) :
              calls[c].outcome.kind = "throw" /\ result = calls[c].outcome

\* the first request succeeded with URLs, the second one failed later with
\* status 404, and the call failed
C4_Witness ==
    /\ Len(calls) = 2
    /\ calls[1].outcome.kind = "ok"
    /\ Len(calls[1].outcome.value.images) > 0
    /\ calls[2].outcome.kind = "throw"
    /\ calls[2].response.status = 404
    /\ calls[1].order < calls[2].order
    /\ result.kind = "throw"

----------------------------------------------------------------------------
(* getFigmassets *)

FrameIdLists == {<<>>, <<"X">>, <<"1:1">>, <<"X", "1:2">>}
FrameNameLists == SeqsUpTo(Names, 1)
ScaleLists == {<<1>>, <<2, 1>>}

InitFigmassets ==
    /\ pc = "figmassets_start"
    /\ frameIds \in FrameIdLists
    /\ frameNames \in FrameNameLists
    /\ scales \in ScaleLists
    /\ Idle({"frameIds", "frameNames", "scales"})

\* const file = await api.get(`files/${fileKey}`)
GetFigmassets ==
    /\ pc = "figmassets_start"
    /\ calls' = <<NewCall("files", <<>>)>>
    /\ fetchLog' = <<Request("files", <<>>)>>
    /\ pc' = "file_await"
    /\ UNCHANGED <<file, frameIds, frameNames, frames, assetList, scales,
                   result, assets, loads, images, path>>

\* the file request: any bounded document, or a failure; an image request:
\* every id rendered, or a failure
DocFiles == Files(MaxDocNodes, Types)

FigmassetsResponses(call) ==
    IF call.api = "files"
    THEN ({200} \X {DataBody(f) : f \in DocFiles})
         \cup ({404} \X {ErrBody("Not found")})
    ELSE ({200} \X {DataBody(ImageList(call,
                        {call.params.ids[i] : i \in 1..Len(call.params.ids)}))})
         \cup ({500} \X {Unparsable})

NextFigmassets ==
    \/ GetFigmassets
    \/ \E c \in 1..Len(calls) :
          /\ calls[c].pc = "fetch"
          /\ \E r \in FigmassetsResponses(calls[c]) : FetchRespond(c, r[1], r[2])
    \/ \E c \in 1..Len(calls) : FetchReject(c)
    \/ \E c \in 1..Len(calls) : ErrJsonSettle(c)
    \/ \E c \in 1..Len(calls) : JsonSettle(c)

SpecFigmassets == InitFigmassets /\ [][NextFigmassets]_vars

\* the frame ids the caller gave: frameIds without the ids resolved from
\* the names, which getFigmassets appends once the file is there
GivenIds ==
    IF pc \in {"figmassets_start", "file_await"} \/ calls[1].outcome.kind # "ok"
    THEN frameIds
    ELSE SubSeq(frameIds, 1, Len(frameIds) - Len(frameNames))

\* no id given is the id of a node of the document fetched, and no name
\* given is the name of a FRAME of it
NothingMatches ==
    /\ Len(calls) > 0
    /\ calls[1].outcome.kind = "ok"
    /\ LET doc == calls[1].outcome.value.document
       IN  /\ \A k \in 1..Len(GivenIds) : \A n \in 1..Len(doc) : doc[n].id # GivenIds[k]
           /\ \A k \in 1..Len(frameNames) : FrameMatches(doc, frameNames[k]) = {}

Mentions(msg, word) == \E i \in 1..Len(msg) : msg[i] = word

\* C1: when nothing the caller asked for matches a node of the document
\* fetched, getFigmassets fails with the 'No matching frames' error, whose
\* message names the ids and names asked for; it returns no Image Record
\* and the files request is the only request ever made.
C1_NoMatchingFrames ==
    NothingMatches =>
        /\ pc = "done"
        /\ result.kind = "throw"
        /\ result.error.type = "No matching frames"
        /\ \A k \in 1..Len(GivenIds) : Mentions(result.error.extra, GivenIds[k])
        /\ \A k \in 1..Len(frameNames) : Mentions(result.error.extra, frameNames[k])
        /\ fetchLog = <<Request("files", <<>>)>>
        /\ Len(calls) = 1

\* an unknown id and a name no FRAME carries, against a document with nodes
C1_Witness ==
    /\ NothingMatches
    /\ GivenIds = <<"X">>
    /\ Len(frameNames) = 1
    /\ Len(calls[1].outcome.value.document) > 2
    /\ \E n \in 1..Len(file.document) : file.document[n].name = frameNames[1]
    /\ result.kind = "throw"
    /\ result.error.type = "No matching frames"

----------------------------------------------------------------------------
(* Map Integration: addAssetsToMap *)

Digits == {"0", "1", "2", "3", "4", "5", "6", "7", "8", "9"}

DigitValue(ch) == CHOOSE n \in 0..9 : Digit(n) = ch

\* +k.replace(/[^0-9.]/g, ''): the number the digits left of the key write
RECURSIVE FromDigits(_)
FromDigits(ds) ==
    IF ds = <<>> THEN 0
    ELSE 10 * FromDigits(SubSeq(ds, 1, Len(ds) - 1)) + DigitValue(ds[Len(ds)])

ParseScale(key) == FromDigits(SelectSeq(key, LAMBDA ch : ch \in Digits))

Max(S) == CHOOSE x \in S : \A y \in S : y <= x

\* Math.max over the keys of the entry that start with '@'; every entry
\* given here has such a key (Math.max() of none is -Infinity)
MaxScaleOf(entry) ==
    Max({ParseScale(entry[e].key) : e \in {g \in 1..Len(entry) : entry[g].key[1] = "@"}})

\* assets[iconId][`@${scale}x`]
UrlAtScale(entry, scale) ==
    IF HasKey(entry, ScaleKey(scale)) THEN ObjGet(entry, ScaleKey(scale)) ELSE NoUrl

\* the map.loadImage calls of the loop over Object.keys(assets), each with
\* the name and the scale its callback closes over
LoadCalls(as) ==
    [a \in 1..Len(as) |->
        LET scale == MaxScaleOf(as[a].val)
        IN  [url |-> UrlAtScale(as[a].val, scale), id |-> as[a].key,
             scale |-> scale, state |-> "pending"]]

\* (error, image) => map.addImage(id, image, {pixelRatio: scale})
AddImageCall(load, error) ==
    [id |-> load.id,
     image |-> IF error THEN Undefined ELSE "image",
     pixelRatio |-> load.scale]

MapScaleValues == {1, 2, 3}

\* the Image Records getAssetImages can return for a non-empty list of
\* distinct scales
ImageRecords ==
    UNION {
        {Merge(list, scs,
               [i \in 1..Len(scs) |->
                   ImageList([params |-> ImageParams(list, scs[i])], present[i])]) :
            present \in [1..Len(scs) -> SUBSET {list[a].val : a \in 1..Len(list)}]} :
        <<list, scs>> \in {x \in AssetLists(MaxAssets) \X SeqsUpTo(MapScaleValues, MaxScales) :
            /\ Len(x[2]) > 0
            /\ \A i, j \in 1..Len(x[2]) : x[2][i] = x[2][j] => i = j}}

InitMap ==
    /\ pc = "map_start"
    /\ assets \in ImageRecords
    /\ Idle({"assets"})

AddAssetsToMap ==
    /\ pc = "map_start"
    /\ loads' = LoadCalls(assets)
    /\ pc' = "done"
    /\ UNCHANGED <<file, frameIds, frameNames, frames, assetList, scales,
                   calls, fetchLog, result, assets, images, path>>

\* the map calls the callback of a load back, with an error or an image
LoadCallback(i, error) ==
    /\ pc = "done"
    /\ loads[i].state = "pending"
    /\ loads' = [loads EXCEPT ![i].state = IF error THEN "failed" ELSE "loaded"]
    /\ images' = Append(images, AddImageCall(loads[i], error))
    /\ UNCHANGED <<pc, file, frameIds, frameNames, frames, assetList, scales,
                   calls, fetchLog, result, assets, path>>

NextMap ==
    \/ AddAssetsToMap
    \/ \E i \in 1..Len(loads) : \E error \in BOOLEAN : LoadCallback(i, error)

SpecMap == InitMap /\ [][NextMap]_vars

\* the scales at which the entry carries a URL
ScalesWithUrl(entry) ==
    {n \in MapScaleValues :
        \E e \in 1..Len(entry) : entry[e].key = ExpectedKey(n) /\ entry[e].val # NoUrl}

\* C6: addAssetsToMap loads each asset from the URL of the highest scale
\* among the entries of the asset that carry a URL, under the asset's name
\* and with that scale as pixel ratio.
C6_AsStated ==
    pc = "done" =>
        /\ Len(loads) = Len(assets)
        /\ \A a \in 1..Len(assets) :
            LET present == ScalesWithUrl(assets[a].val)
            IN  present # {} =>
                  /\ loads[a].id = assets[a].key
                  /\ loads[a].scale = Max(present)
                  /\ loads[a].url = <<"url", Max(present), ObjGet(assets[a].val, IdKey)>>

\* C7: an image is registered only for a load that completed successfully,
\* no image is registered for a load whose callback reported an error, and
\* no asset is registered twice.
C7_AsStated ==
    /\ \A r \in 1..Len(images) :
          \E i \in 1..Len(loads) :
              loads[i].id = images[r].id /\ loads[i].state = "loaded"
    /\ \A i \in 1..Len(loads) :
          loads[i].state = "failed" =>
              \A r \in 1..Len(images) : images[r].id # loads[i].id
    /\ \A r, q \in 1..Len(images) : images[r].id = images[q].id => r = q

----------------------------------------------------------------------------
(* Static Snapshot Loader: loadStoredFigmassets *)

PathChars == {"a", "/"}

\* a separator appended to every path
Normalize_Always(p) == p \o <<"/">>

\* path.replace(/([^/])$/, '$1/') under if (path)
Normalize(p) ==
    IF Len(p) > 0 /\ p[Len(p)] # "/" THEN p \o <<"/">> ELSE p

\* `${path}assets.json`
ManifestUrl(p) == Normalize(p) \o <<"assets.json">>

\* the map.loadImage calls of the loop over the manifest
StoredLoadCalls(p, manifest) ==
    [k \in 1..Len(manifest) |->
        [url |-> Normalize(p) \o <<manifest[k].fileName>>, id |-> manifest[k].id,
         scale |-> manifest[k].scale, state |-> "pending"]]

Descriptors ==
    {[id |-> "a", fileName |-> "a.png", scale |-> 1],
     [id |-> "a", fileName |-> "a@2x.png", scale |-> 2],
     [id |-> "b", fileName |-> "b.png", scale |-> 1]}

InitStored ==
    /\ pc = "stored_start"
    /\ path \in SeqsUpTo(PathChars, MaxPath)
    /\ Idle({"path"})

\* up to the await of the manifest: the manifest is asked for
LoadStoredFigmassets ==
    /\ pc = "stored_start"
    /\ fetchLog' = <<ManifestUrl(path)>>
    /\ pc' = "manifest_await"
    /\ UNCHANGED <<file, frameIds, frameNames, frames, assetList, scales,
                   calls, result, assets, loads, images, path>>

\* the manifest arrives and parses: one load per descriptor
ManifestArrives(manifest) ==
    /\ pc = "manifest_await"
    /\ assets' = manifest
    /\ loads' = StoredLoadCalls(path, manifest)
    /\ result' = Ok(Undefined)
    /\ pc' = "done"
    /\ UNCHANGED <<file, frameIds, frameNames, frames, assetList, scales,
                   calls, fetchLog, images, path>>

\* the fetch of the manifest, or its r.json(), fails
ManifestFails ==
    /\ pc = "manifest_await"
    /\ result' = Throw(Error("FetchError", 0, ""))
    /\ pc' = "done"
    /\ UNCHANGED <<file, frameIds, frameNames, frames, assetList, scales,
                   calls, fetchLog, assets, loads, images, path>>

\* (error, image) => map.addImage(asset.id, image, {pixelRatio: asset.scale})
StoredCallback(i, error) ==
    /\ pc = "done"
    /\ loads[i].state = "pending"
    /\ loads' = [loads EXCEPT ![i].state = IF error THEN "failed" ELSE "loaded"]
    /\ images' = Append(images, AddImageCall(loads[i], error))
    /\ UNCHANGED <<pc, file, frameIds, frameNames, frames, assetList, scales,
                   calls, fetchLog, result, assets, path>>

NextStored ==
    \/ LoadStoredFigmassets
    \/ \E manifest \in SeqsUpTo(Descriptors, MaxAssets) : ManifestArrives(manifest)
    \/ ManifestFails
    \/ \E i \in 1..Len(loads) : \E error \in BOOLEAN : StoredCallback(i, error)

SpecStored == InitStored /\ [][NextStored]_vars

\* the path the manifest was asked under: its URL without 'assets.json'
UsedPath == SubSeq(fetchLog[1], 1, Len(fetchLog[1]) - 1)

\* each descriptor has exactly one load, for the used path followed by its
\* file name, and each load called back has exactly one registration, under
\* the descriptor's id with the descriptor's scale
OneLoadPerDescriptor ==
    pc = "done" /\ result.kind = "ok" =>
        /\ Len(loads) = Len(assets)
        /\ \A k \in 1..Len(assets) :
            /\ loads[k].url = UsedPath \o <<assets[k].fileName>>
            /\ loads[k].id = assets[k].id
            /\ loads[k].scale = assets[k].scale
        /\ Len(images) = Cardinality({k \in 1..Len(loads) : loads[k].state # "pending"})
        /\ \A r \in 1..Len(images) :
            \E k \in 1..Len(assets) :
                /\ loads[k].state # "pending"
                /\ images[r].id = assets[k].id
                /\ images[r].pixelRatio = assets[k].scale

\* C10 as stated: whatever the base path, the path used ends with exactly
\* one separator; the manifest is asked for at '<path>assets.json'; every
\* descriptor has one load at '<path><fileName>' and a registration under
\* its id with its scale.
C10_AsStated ==
    pc # "stored_start" =>
        /\ Len(UsedPath) > 0
        /\ UsedPath[Len(UsedPath)] = "/"
        /\ Len(UsedPath) > 1 => UsedPath[Len(UsedPath) - 1] # "/"
        /\ fetchLog = <<UsedPath \o <<"assets.json">>>>
        /\ OneLoadPerDescriptor

\* C10 amended: a non-empty base path that does not end with a separator
\* gets one appended; the empty path and a path that already ends with a
\* separator (one or several) are used as given; the manifest is asked for
\* at '<path>assets.json'; every descriptor has one load at
\* '<path><fileName>' and a registration under its id with its scale.
C10_SeparatorAppendedWhenMissing ==
    pc # "stored_start" =>
        /\ UsedPath = (IF path # <<>> /\ path[Len(path)] # "/"
                       THEN path \o <<"/">> ELSE path)
        /\ fetchLog = <<UsedPath \o <<"assets.json">>>>
        /\ OneLoadPerDescriptor

\* path 'a' and a manifest with a.png: the load targets 'a/a.png' and the
\* image is registered under 'a' with ratio 1
C10_Witness ==
    /\ pc = "done"
    /\ path = <<"a">>
    /\ fetchLog = <<<<"a", "/", "assets.json">>>>
    /\ Len(assets) > 0
    /\ assets[1] = [id |-> "a", fileName |-> "a.png", scale |-> 1]
    /\ loads[1].url = <<"a", "/", "a.png">>
    /\ loads[1].state = "loaded"
    /\ \E r \in 1..Len(images) : images[r].id = "a" /\ images[r].pixelRatio = 1

====
